---- MODULE Spec2Model ----
(***************************************************************************)
(* Model of the ecocue repository.                                         *)
(*                                                                         *)
(*   src/script.js          the personal calculator: calculateEmissions,   *)
(*                          saveResult, loadHistory, clearHistory and the  *)
(*                          'carbonHistory' blob in localStorage.          *)
(*   src/service-worker.js  the dashboard: parseCSV, processData and the   *)
(*                          render functions.                              *)
(*                                                                         *)
(* Real numbers are fixed-point integers.  In the calculator part a value  *)
(* is in hundredths of a kg CO2e (0.18 kg/km is 18).  Rounding of floating *)
(* point sums is therefore not modelled.                                   *)
(*                                                                         *)
(* The two scripts run on different pages and share no state: HistSpec     *)
(* runs the calculator with the dashboard idle, PipeSpec runs one load of  *)
(* the dashboard with the calculator idle, RaceSpec runs several loads of  *)
(* the dashboard, started one after another and completing in any order.   *)
(*                                                                         *)
(* Left out: the text of the tips, labels and cards (the model keeps the   *)
(* values they are made from), scrolling, the canvas drawing calls and the *)
(* service worker cache.  Form inputs are finite numbers.  The dates of    *)
(* the inputs lie inside their month in every time zone.                   *)
(***************************************************************************)
EXTENDS Integers, Sequences, FiniteSets, TLC

VARIABLES
    blob,      \* localStorage item 'carbonHistory'
    results,   \* the #results element: hidden class and dataset.result
    view,      \* the #history and #chart containers
    alert,     \* the alert() shown by the last handler, "none" if none
    threw,     \* TRUE iff the last handler ended with an uncaught exception
    now,       \* Date.now()
    lastOp,    \* history variable: the handler that ran last
    prev,      \* history variable: blob as the last handler found it
    lastCalc,  \* history variable: the form contents and the time of the
               \* most recent calculateEmissions, and the number of entries
               \* saveResult has appended since (2 stands for two or more);
               \* <<>> before the first one
    pending,   \* dashboard: the file read or sample fetch in flight
    activityData,  \* dashboard: the global data array
    dash,      \* dashboard: the sections and containers of the page
    dashThrew, \* dashboard: TRUE iff the last load handler threw
    loaded,    \* history variable: the text of the load that completed last
    parsed,    \* history variable: what parseCSV returned for that text
    started,   \* history variable: the number of loads started so far
    completed  \* history variable: the loads that reached processData, in
               \* the order they did; a load is named by its start number

histVars == <<blob, results, view, alert, threw, now, lastOp, prev, lastCalc>>

dashVars == <<pending, activityData, dash, dashThrew, loaded, parsed, started, completed>>

vars == <<histVars, dashVars>>

\* The dashboard page as served: both sections hidden, every container empty.
EmptyDash ==
    [hidden |-> TRUE, summary |-> <<>>, deptBars |-> <<>>, catBars |-> <<>>,
     trend |-> [labels |-> <<>>, values |-> <<>>], analysis |-> <<>>]

\* the dashboard page with nothing loaded and no load in flight
DashIdle ==
    /\ pending = <<>>
    /\ activityData = <<>>
    /\ dash = EmptyDash
    /\ dashThrew = FALSE
    /\ loaded = <<>>
    /\ parsed = <<>>
    /\ started = 0
    /\ completed = <<>>

(***************************************************************************)
(* Bounds of the model.                                                    *)
(***************************************************************************)
MaxHistory == 2      \* saveResult is explored while the list is shorter
MaxClock == 2        \* Date.now() ranges over 0..MaxClock

(***************************************************************************)
(* src/script.js: constants.                                               *)
(***************************************************************************)
EMISSION_FACTORS == [car |-> 18, bus |-> 11, train |-> 4, flight |-> 46]

ELECTRICITY_FACTOR == 82

MEAT_MEAL_FACTOR == 1500

\* EMISSION_FACTORS[mode] || 0
ModeFactor(mode) ==
    IF mode \in DOMAIN EMISSION_FACTORS THEN EMISSION_FACTORS[mode] ELSE 0

\* The form contents tried: (distance km, mode, kWh, meat meals), already
\* passed through parseFloat(..) || 0.
FormInputs ==
    { [distance |-> 0,  mode |-> "car",    kWh |-> 0, meatMeals |-> 0],
      [distance |-> 10, mode |-> "car",    kWh |-> 5, meatMeals |-> 1],
      [distance |-> 3,  mode |-> "flight", kWh |-> 0, meatMeals |-> 2] }

(***************************************************************************)
(* calculateEmissions: the entry written to resultsDiv.dataset.result.     *)
(***************************************************************************)
NewEntry(in, t) ==
    LET transportEmission == in.distance * ModeFactor(in.mode)
        electricityEmission == in.kWh * ELECTRICITY_FACTOR
        meatEmission == in.meatMeals * MEAT_MEAL_FACTOR
        totalEmission == transportEmission + electricityEmission + meatEmission
    IN  [date |-> t,
         total |-> totalEmission,
         details |-> [transport |-> transportEmission,
                      electricity |-> electricityEmission,
                      meat |-> meatEmission]]

(***************************************************************************)
(* The persisted blob.  kind is one of                                     *)
(*   "absent"      no item: getItem returns null, JSON.parse(null) is null *)
(*   "unparsable"  text JSON.parse throws on                               *)
(*   "falsy"       JSON text of null, 0, false or ""                       *)
(*   "nonlist"     JSON text of a truthy value that is no array: {}, 5,    *)
(*                 true, "abc"                                             *)
(*   "list"        JSON text of an array; val is its elements              *)
(* An element of a list is an entry or Junk (a value such as 1 or {} that  *)
(* has no total and no details).                                           *)
(***************************************************************************)
Junk == [junk |-> TRUE]

IsEntry(e) == "total" \in DOMAIN e

Absent == [kind |-> "absent", val |-> <<>>]

\* JSON.stringify(history) of an array
Stringify(items) == [kind |-> "list", val |-> items]

\* let history = []; try { history = JSON.parse(getItem()) || [] } catch { [] }
ReadHistory(b) ==
    IF b.kind \in {"absent", "unparsable", "falsy"}
    THEN [kind |-> "list", val |-> <<>>]
    ELSE [kind |-> b.kind, val |-> b.val]

(***************************************************************************)
(* renderChart: one bar per entry, height = total / max * 100 (percent,    *)
(* rounded down); 0/0 is NaN, written NaNPct.                              *)
(***************************************************************************)
NaNPct == 0 - 1

RECURSIVE MaxTotal(_)
MaxTotal(h) ==
    IF Len(h) = 1 THEN h[1].total
    ELSE LET m == MaxTotal(Tail(h))
         IN  IF h[1].total > m THEN h[1].total ELSE m

renderChart(h) ==
    LET max == MaxTotal(h)
    IN  [i \in 1..Len(h) |->
            [label |-> h[i].total,
             height |-> IF max = 0 THEN NaNPct ELSE (h[i].total * 100) \div max]]

(***************************************************************************)
(* loadHistory: the containers after the call and whether it threw.        *)
(*   state "nohistory"  the 'No history yet' paragraph                     *)
(*   state "table"      the table (rows) and the chart (bars)              *)
(*   state "blank"      both containers emptied and nothing added: the     *)
(*                      call threw before table.appendChild                *)
(***************************************************************************)
NoHistoryView == [state |-> "nohistory", rows |-> <<>>, bars |-> <<>>]

BlankView == [state |-> "blank", rows |-> <<>>, bars |-> <<>>]

loadHistory(b) ==
    LET history == ReadHistory(b)
    IN  IF history.kind = "list" /\ Len(history.val) = 0
        THEN [view |-> NoHistoryView, threw |-> FALSE]
        ELSE IF history.kind # "list"
        THEN \* history.forEach is not a function
             [view |-> BlankView, threw |-> TRUE]
        ELSE IF \E i \in 1..Len(history.val) : ~IsEntry(history.val[i])
        THEN \* entry.total.toFixed: entry.total is undefined
             [view |-> BlankView, threw |-> TRUE]
        ELSE [view |-> [state |-> "table", rows |-> history.val,
                        bars |-> renderChart(history.val)],
              threw |-> FALSE]

(***************************************************************************)
(* What localStorage may hold when the page is opened.                     *)
(***************************************************************************)
InitialBlobs ==
    { Absent,
      [kind |-> "unparsable", val |-> <<>>],
      [kind |-> "falsy", val |-> <<>>],
      [kind |-> "nonlist", val |-> <<>>],
      Stringify(<<>>),
      Stringify(<<Junk>>),
      Stringify(<<NewEntry([distance |-> 10, mode |-> "bus", kWh |-> 0,
                            meatMeals |-> 0], 0)>>) }

NoResult == [hidden |-> TRUE, data |-> <<>>]

\* DOMContentLoaded: the listeners are attached, then loadHistory()
HistInit ==
    /\ blob \in InitialBlobs
    /\ results = NoResult
    /\ view = loadHistory(blob).view
    /\ threw = loadHistory(blob).threw
    /\ alert = "none"
    /\ now = 0
    /\ lastOp = "pageload"
    /\ prev = blob
    /\ lastCalc = <<>>
    /\ DashIdle

\* time passes between two handlers
Tick ==
    /\ now < MaxClock
    /\ now' = now + 1
    /\ lastOp' = "tick"
    /\ alert' = "none"
    /\ threw' = FALSE
    /\ prev' = blob
    /\ UNCHANGED <<blob, results, view, lastCalc>>
    /\ UNCHANGED dashVars

calculateEmissions ==
    \E in \in FormInputs :
        /\ results' = [hidden |-> FALSE, data |-> <<NewEntry(in, now)>>]
        /\ alert' = "none"
        /\ threw' = FALSE
        /\ lastOp' = "calculate"
        /\ prev' = blob
        /\ lastCalc' = <<[in |-> in, t |-> now, saves |-> 0]>>
        /\ UNCHANGED <<blob, view, now>>
        /\ UNCHANGED dashVars

\* saveResult with history.unshift(entry) in place of history.push(entry)
SaveOutcomeUnshift(r, b, v) ==
    IF r.data = <<>>
    THEN [blob |-> b, view |-> v, alert |-> "calculateFirst", threw |-> FALSE]
    ELSE LET entry == r.data[1]
             history == ReadHistory(b)
         IN  IF history.kind # "list"
             THEN [blob |-> b, view |-> v, alert |-> "none", threw |-> TRUE]
             ELSE LET stored == Stringify(<<entry>> \o history.val)
                      shown == loadHistory(stored)
                  IN  [blob |-> stored, view |-> shown.view,
                       alert |-> IF shown.threw THEN "none" ELSE "saved",
                       threw |-> shown.threw]

\* saveResult stamping the entry with the time of the save
SaveOutcomeRestamp(r, b, v) ==
    IF r.data = <<>>
    THEN [blob |-> b, view |-> v, alert |-> "calculateFirst", threw |-> FALSE]
    ELSE LET entry == [r.data[1] EXCEPT !.date = now]
             history == ReadHistory(b)
         IN  IF history.kind # "list"
             THEN [blob |-> b, view |-> v, alert |-> "none", threw |-> TRUE]
             ELSE LET stored == Stringify(Append(history.val, entry))
                      shown == loadHistory(stored)
                  IN  [blob |-> stored, view |-> shown.view,
                       alert |-> IF shown.threw THEN "none" ELSE "saved",
                       threw |-> shown.threw]

\* saveResult with the history read and written back before the !data test
SaveOutcomeLateCheck(r, b, v) ==
    LET history == ReadHistory(b)
    IN  IF history.kind # "list"
        THEN [blob |-> b, view |-> v, alert |-> "none", threw |-> TRUE]
        ELSE IF r.data = <<>>
        THEN [blob |-> Stringify(history.val), view |-> v,
              alert |-> "calculateFirst", threw |-> FALSE]
        ELSE LET stored == Stringify(Append(history.val, r.data[1]))
                 shown == loadHistory(stored)
             IN  [blob |-> stored, view |-> shown.view,
                  alert |-> IF shown.threw THEN "none" ELSE "saved",
                  threw |-> shown.threw]

\* The outcome of saveResult on results element r, blob b and view v.
SaveOutcome(r, b, v) ==
    IF r.data = <<>>
    THEN [blob |-> b, view |-> v, alert |-> "calculateFirst", threw |-> FALSE]
    ELSE LET entry == r.data[1]
             history == ReadHistory(b)
         IN  IF history.kind # "list"
             THEN \* history.push is not a function
                  [blob |-> b, view |-> v, alert |-> "none", threw |-> TRUE]
             ELSE LET stored == Stringify(Append(history.val, entry))
                      shown == loadHistory(stored)
                  IN  [blob |-> stored, view |-> shown.view,
                       alert |-> IF shown.threw THEN "none" ELSE "saved",
                       threw |-> shown.threw]

saveResult ==
    /\ results.data = <<>> \/ Len(ReadHistory(blob).val) < MaxHistory
    /\ LET out == SaveOutcome(results, blob, view)
       IN  /\ blob' = out.blob
           /\ view' = out.view
           /\ alert' = out.alert
           /\ threw' = out.threw
    /\ lastOp' = "save"
    /\ prev' = blob
    /\ lastCalc' = IF lastCalc # <<>> /\ blob' # blob
                   THEN <<[lastCalc[1] EXCEPT !.saves = IF @ < 2 THEN @ + 1 ELSE 2]>>
                   ELSE lastCalc
    /\ UNCHANGED <<results, now>>
    /\ UNCHANGED dashVars

\* clearHistory without the closing loadHistory() call
ClearOutcomeNoReload(ok, b, v) ==
    IF ~ok
    THEN [blob |-> b, view |-> v, threw |-> FALSE]
    ELSE [blob |-> Absent, view |-> v, threw |-> FALSE]

\* The outcome of clearHistory; ok is the answer to confirm().
ClearOutcome(ok, b, v) ==
    IF ~ok
    THEN [blob |-> b, view |-> v, threw |-> FALSE]
    ELSE [blob |-> Absent, view |-> loadHistory(Absent).view,
          threw |-> loadHistory(Absent).threw]

clearHistory ==
    \E ok \in BOOLEAN :
        /\ LET out == ClearOutcome(ok, blob, view)
           IN  /\ blob' = out.blob
               /\ view' = out.view
               /\ threw' = out.threw
        /\ alert' = "none"
        /\ lastOp' = IF ok THEN "clear" ELSE "clearDeclined"
        /\ prev' = blob
        /\ UNCHANGED <<results, now, lastCalc>>
        /\ UNCHANGED dashVars

\* The page is opened again: a fresh document, the same localStorage.
PageLoad ==
    /\ results' = NoResult
    /\ view' = loadHistory(blob).view
    /\ threw' = loadHistory(blob).threw
    /\ alert' = "none"
    /\ lastOp' = "pageload"
    /\ prev' = blob
    /\ UNCHANGED <<blob, now, lastCalc>>
    /\ UNCHANGED dashVars

HistNext ==
    \/ Tick
    \/ calculateEmissions
    \/ saveResult
    \/ clearHistory
    \/ PageLoad

HistSpec == HistInit /\ [][HistNext]_vars

(***************************************************************************)
(* Claims about the history store (checked under HistSpec).                *)
(***************************************************************************)
\* the entries a reader finds in blob b
Stored(b) == ReadHistory(b).val

\* b is absent, unparsable, or JSON that is not a list of entries
Corrupt(b) ==
    \/ b.kind # "list"
    \/ \E i \in 1..Len(b.val) : ~IsEntry(b.val[i])

IsPrefix(s, t) == Len(s) <= Len(t) /\ SubSeq(t, 1, Len(s)) = s

\* C1: the persisted history is append-only in insertion order: a handler
\* that changes the stored item is either the confirmed clear, which removes
\* it, or saveResult, which keeps every stored entry at its position and adds
\* exactly one entry at the end; a saveResult that reports success has added
\* the entry of the results element.
C1_AppendOnly ==
    /\ blob # prev =>
          \/ lastOp = "clear" /\ blob = Absent
          \/ /\ lastOp = "save"
             /\ blob.kind = "list"
             /\ Len(blob.val) = Len(Stored(prev)) + 1
             /\ IsPrefix(Stored(prev), blob.val)
    /\ lastOp = "save" /\ alert = "saved" =>
          blob = Stringify(Append(Stored(prev), results.data[1]))
    /\ lastOp \notin {"save", "clear"} => blob = prev

C1_Witness ==
    /\ lastOp = "save"
    /\ alert = "saved"
    /\ Len(Stored(prev)) >= 1
    /\ blob.val[Len(blob.val)] # blob.val[1]
    /\ blob.val[Len(blob.val)].date > blob.val[1].date

\* C2: saveResult with no result on the results element prompts the user and
\* aborts: no exception, and the stored item is exactly what it was.
C2_SaveWithoutResult ==
    lastOp = "save" /\ results.data = <<>> =>
        /\ alert = "calculateFirst"
        /\ ~threw
        /\ blob = prev

C2_Witness ==
    /\ lastOp = "save"
    /\ results.data = <<>>
    /\ Len(Stored(prev)) >= 1
    /\ ~Corrupt(prev)
    /\ alert = "calculateFirst"

\* C3 (as claimed): whatever the stored item holds, a reader treats a corrupt
\* item as the empty history and does not throw: loadHistory shows the
\* no-history state, and saveResult stores exactly the new entry.
C3_CorruptTreatedAsEmpty ==
    /\ lastOp = "pageload" /\ Corrupt(blob) =>
          ~threw /\ view = NoHistoryView
    /\ lastOp = "save" /\ results.data # <<>> /\ Corrupt(prev) =>
          ~threw /\ blob = Stringify(<<results.data[1]>>)

\* C4: a confirmed clearHistory leaves no stored history and the no-history
\* view (no rows, no bars), whatever was saved before; and loadHistory on a
\* page load finds the history empty for as long as nothing is saved.
C4_ClearEmpties ==
    /\ lastOp = "clear" =>
          /\ blob = Absent
          /\ Stored(blob) = <<>>
          /\ view = NoHistoryView
          /\ ~threw
    /\ lastOp = "pageload" /\ blob = Absent =>
          view = NoHistoryView /\ ~threw

C4_Witness ==
    /\ lastOp = "clear"
    /\ Len(Stored(prev)) >= 2
    /\ ~Corrupt(prev)
    /\ view = NoHistoryView


Num(n) == [t |-> "num", v |-> n]

NaN == [t |-> "nan", v |-> 0]

ObjectFn == [t |-> "fn", v |-> 0]

Str == [t |-> "str", v |-> 0]

Undefined == [t |-> "undef", v |-> 0]

IsNum(x) == x.t = "num"

\* ToBoolean
Truthy(x) ==
    CASE x.t = "num" -> x.v # 0
      [] x.t = "nan" -> FALSE
      [] x.t = "undef" -> FALSE
      [] OTHER -> TRUE

\* a * b
Mul(a, b) == IF IsNum(a) /\ IsNum(b) THEN Num(a.v * b.v) ELSE NaN

\* a + b: string concatenation when an operand is a function or a string
Add(a, b) ==
    IF a.t \in {"fn", "str"} \/ b.t \in {"fn", "str"} THEN Str
    ELSE IF IsNum(a) /\ IsNum(b) THEN Num(a.v + b.v)
    ELSE NaN

\* s.reduce((a, b) => a + b, 0)
RECURSIVE SeqSum(_)
SeqSum(s) == IF s = <<>> THEN Num(0) ELSE Add(SeqSum(SubSeq(s, 1, Len(s) - 1)), s[Len(s)])

(***************************************************************************)
(* Object literals: own properties in insertion order, as a sequence of    *)
(* [k, v]; a property read falls back to Object.prototype.                 *)
(***************************************************************************)
ObjectPrototypeKeys == {"constructor"}

\* canonical array-index keys, enumerated first and in ascending order
IndexKeys == {"7"}

IndexValue(k) == IF k = "7" THEN 7 ELSE 0

OwnKeys(obj) == {obj[i].k : i \in 1..Len(obj)}

\* obj[k]
Get(obj, k) ==
    IF k \in OwnKeys(obj)
    THEN (CHOOSE e \in {obj[i] : i \in 1..Len(obj)} : e.k = k).v
    ELSE IF k \in ObjectPrototypeKeys THEN ObjectFn
    ELSE Undefined

\* obj[k] = v
Put(obj, k, v) ==
    IF k \in OwnKeys(obj)
    THEN [i \in 1..Len(obj) |-> IF obj[i].k = k THEN [k |-> k, v |-> v] ELSE obj[i]]
    ELSE Append(obj, [k |-> k, v |-> v])

RECURSIVE SelectSeq2(_, _)
\* the elements of s whose key is (want = TRUE) or is not an index key
SelectSeq2(s, want) ==
    IF s = <<>> THEN <<>>
    ELSE IF (s[1].k \in IndexKeys) = want
         THEN <<s[1]>> \o SelectSeq2(Tail(s), want)
         ELSE SelectSeq2(Tail(s), want)

RECURSIVE SortByIndex(_)
SortByIndex(s) ==
    IF s = <<>> THEN <<>>
    ELSE LET m == CHOOSE i \in 1..Len(s) :
                    \A j \in 1..Len(s) : IndexValue(s[i].k) <= IndexValue(s[j].k)
         IN  <<s[m]>> \o SortByIndex(SubSeq(s, 1, m - 1) \o SubSeq(s, m + 1, Len(s)))

\* Object.entries(obj)
ObjectEntries(obj) == SortByIndex(SelectSeq2(obj, TRUE)) \o SelectSeq2(obj, FALSE)

\* Object.values(obj)
ObjectValues(obj) == [i \in 1..Len(obj) |-> ObjectEntries(obj)[i].v]

(***************************************************************************)
(* Strings.  The string functions are tabulated on the strings the inputs  *)
(* below are made of; on every other string of the model they act as       *)
(* shown in the last branch.                                               *)
(***************************************************************************)
\* s.trim()
Trim(s) ==
    CASE s = " amount" -> "amount"
      [] s = " HR " -> "HR"
      [] s = " 10 " -> "10"
      [] OTHER -> s

\* s.toLowerCase()
ToLowerCase(s) ==
    CASE s = "Date" -> "date"
      [] s = "DATE" -> "date"
      [] s = "Department" -> "department"
      [] s = "Category" -> "category"
      [] s = "Unit" -> "unit"
      [] s = "Amount" -> "amount"
      [] s = "Waste" -> "waste"
      [] s = "Ops" -> "ops"
      [] s = "HR" -> "hr"
      [] OTHER -> s

\* line.startsWith('#')
StartsWithHash(s) == s \in {"# note"}

\* new Date(s): invalid, or a time (days since 2023-12-31) with the month
\* key getFullYear() + '-' + padStart(getMonth() + 1)
InvalidDate == [valid |-> FALSE, time |-> 0, month |-> ""]

NewDate(s) ==
    CASE s = "2024-01-05" -> [valid |-> TRUE, time |-> 5, month |-> "2024-01"]
      [] s = "2024-01-20" -> [valid |-> TRUE, time |-> 20, month |-> "2024-01"]
      [] s = "2024-02-10" -> [valid |-> TRUE, time |-> 41, month |-> "2024-02"]
      [] OTHER -> InvalidDate

\* parseFloat(s)
ParseFloat(s) ==
    CASE s = "0" -> Num(0)
      [] s = "3" -> Num(3)
      [] s = "7" -> Num(7)
      [] s = "10" -> Num(10)
      [] s = "41" -> Num(41)
      [] s = "50" -> Num(50)
      [] OTHER -> NaN

(***************************************************************************)
(* Input texts: a header line and up to MaxLines further lines.  A line is *)
(* the sequence of its comma-separated pieces; the empty line is <<"">>.   *)
(***************************************************************************)
MaxLines == 3

DocumentedHeader == <<"Date", "Department", "Category", "Unit", "Amount">>

Headers == {DocumentedHeader, <<" amount", "category", "DATE", "unit", "department">>}

\* the reordered header is tried with one line less
MaxLinesUnder(h) == IF h = DocumentedHeader THEN MaxLines ELSE MaxLines - 1

Row(d, dep, cat, u, a) ==
    [date |-> d, department |-> dep, category |-> cat, unit |-> u, amount |-> a]

Rows ==
    { Row("2024-01-05", "Ops", "waste", "kg", "10"),
      Row("2024-01-20", " HR ", "Waste", "kg", " 10 "),
      Row("2024-02-10", "Ops", "electricity", "kWh", "50"),
      Row("2024-01-20", "7", "waste", "kg", "41"),
      Row("2024-02-10", "HR", "foo", "km", "7"),
      Row("not-a-date", "Ops", "waste", "kg", "10"),
      Row("2024-01-05", "Ops", "waste", "kg", "abc"),
      Row("2024-02-10", "constructor", "waste", "kg", "10"),
      Row("2024-01-05", "Ops", "constructor", "km", "3") }

\* the line that writes row r under header h
LineOf(r, h) == [i \in 1..Len(h) |-> r[ToLowerCase(Trim(h[i]))]]

EmptyLine == <<"">>

CommentLine == <<"# note">>

LineChoices(h) == {EmptyLine, CommentLine} \cup {LineOf(r, h) : r \in Rows}


\* sample_data.csv is not among the sources: the contents tried for it have
\* at most this many lines after the header
SampleLines == 1

(***************************************************************************)
(* parseCSV                                                                *)
(***************************************************************************)
RECURSIVE TrimLines(_)
\* text.trim().split(/\r?\n/): blank lines at the end are trimmed away
TrimLines(lines) ==
    IF Len(lines) > 1 /\ lines[Len(lines)] = EmptyLine
    THEN TrimLines(SubSeq(lines, 1, Len(lines) - 1))
    ELSE lines

\* header.forEach((key, idx) => record[key] = values[idx] ? values[idx].trim() : '')
Field(header, values, key) ==
    IF \E idx \in 1..Len(header) : header[idx] = key
    THEN LET idx == CHOOSE i \in 1..Len(header) :
                        header[i] = key /\ \A j \in (i + 1)..Len(header) : header[j] # key
         IN  IF idx <= Len(values) /\ values[idx] # "" THEN Trim(values[idx]) ELSE ""
    ELSE ""

\* parseCSV without the isNaN(date) test
ParseLineKeepBadDate(header, line) ==
    IF line = EmptyLine \/ StartsWithHash(line[1]) THEN <<>>
    ELSE << [date |-> NewDate(Field(header, line, "date")),
             department |-> Field(header, line, "department"),
             category |-> ToLowerCase(Field(header, line, "category")),
             unit |-> Field(header, line, "unit"),
             amount |-> ParseFloat(Field(header, line, "amount"))] >>

\* the record pushed for one line, or <<>> when the line is skipped
ParseLine(header, line) ==
    IF line = EmptyLine \/ StartsWithHash(line[1]) THEN <<>>
    ELSE LET date == NewDate(Field(header, line, "date"))
         IN  IF ~date.valid THEN <<>>
             ELSE << [date |-> date,
                      department |-> Field(header, line, "department"),
                      category |-> ToLowerCase(Field(header, line, "category")),
                      unit |-> Field(header, line, "unit"),
                      amount |-> ParseFloat(Field(header, line, "amount"))] >>

RECURSIVE ParseLinesUnshift(_, _, _)
\* parseCSV with data.unshift(record) in place of data.push(record)
ParseLinesUnshift(header, lines, i) ==
    IF i > Len(lines) THEN <<>>
    ELSE ParseLinesUnshift(header, lines, i + 1) \o ParseLine(header, lines[i])

RECURSIVE ParseLines(_, _, _)
ParseLines(header, lines, i) ==
    IF i > Len(lines) THEN <<>>
    ELSE ParseLine(header, lines[i]) \o ParseLines(header, lines, i + 1)

parseCSV(text) ==
    LET lines == TrimLines(text)
    IN  IF Len(lines) < 2 THEN <<>>
        ELSE LET header == [i \in 1..Len(lines[1]) |-> ToLowerCase(Trim(lines[1][i]))]
             IN  ParseLines(header, lines, 2)

(***************************************************************************)
(* processData and the render functions                                    *)
(***************************************************************************)
DASHBOARD_EMISSION_FACTORS ==
    [electricity |-> 82000, transport_car |-> 17067, transport_bus |-> 11000,
     transport_train |-> 4000, transport_flight |-> 46000, waste |-> 100000]

\* EMISSION_FACTORS[rec.category] || 0
Factor(category) ==
    LET f == IF category \in DOMAIN DASHBOARD_EMISSION_FACTORS
             THEN Num(DASHBOARD_EMISSION_FACTORS[category])
             ELSE IF category \in ObjectPrototypeKeys THEN ObjectFn
             ELSE Undefined
    IN  IF Truthy(f) THEN f ELSE Num(0)

\* rec.emission = factor * rec.amount
WithEmission(rec) ==
    [date |-> rec.date, department |-> rec.department, category |-> rec.category,
     unit |-> rec.unit, amount |-> rec.amount,
     emission |-> Mul(Factor(rec.category), rec.amount)]

RECURSIVE InsertByDate(_, _)
\* rec placed behind every element whose date is not later than its own
InsertByDate(sorted, rec) ==
    IF sorted = <<>> THEN <<rec>>
    ELSE IF sorted[1].date.time <= rec.date.time
         THEN <<sorted[1]>> \o InsertByDate(Tail(sorted), rec)
         ELSE <<rec>> \o sorted

RECURSIVE SortByDate(_)
\* activityData.sort((a, b) => a.date - b.date), a stable sort
SortByDate(data) ==
    IF data = <<>> THEN <<>>
    ELSE InsertByDate(SortByDate(SubSeq(data, 1, Len(data) - 1)), data[Len(data)])

\* activityData.reduce((sum, rec) => sum + rec.emission, 0)
Total(data) == SeqSum([i \in 1..Len(data) |-> data[i].emission])

RECURSIVE GroupTotals(_, _, _)
\* totals[key] = (totals[key] || 0) + rec.emission over data, in order; the
\* form if (!totals[key]) totals[key] = 0; totals[key] += rec.emission of
\* renderSummary computes the same
GroupTotals(data, field, totals) ==
    IF data = <<>> THEN totals
    ELSE LET key == data[1][field]
             old == Get(totals, key)
             base == IF Truthy(old) THEN old ELSE Num(0)
         IN  GroupTotals(Tail(data), field, Put(totals, key, Add(base, data[1].emission)))

DeptTotals(data) == GroupTotals(data, "department", <<>>)

CatTotals(data) == GroupTotals(data, "category", <<>>)

RECURSIVE InsertDesc(_, _)
\* e placed behind every element whose value is not smaller than its own
InsertDesc(sorted, e) ==
    IF sorted = <<>> THEN <<e>>
    ELSE IF sorted[1].v.v >= e.v.v
         THEN <<sorted[1]>> \o InsertDesc(Tail(sorted), e)
         ELSE <<e>> \o sorted

RECURSIVE StableSortDesc(_)
StableSortDesc(entries) ==
    IF entries = <<>> THEN <<>>
    ELSE InsertDesc(StableSortDesc(SubSeq(entries, 1, Len(entries) - 1)),
                    entries[Len(entries)])

Orderings(s) ==
    { [i \in 1..Len(s) |-> s[p[i]]] :
        p \in { q \in [1..Len(s) -> 1..Len(s)] :
                  \A i, j \in 1..Len(s) : i # j => q[i] # q[j] } }

\* entries.sort((a, b) => b[1] - a[1]): a stable sort when every value is a
\* number; with a NaN or string value the comparator is inconsistent and the
\* order is implementation-defined
SortDescOutcomes(entries) ==
    IF \A i \in 1..Len(entries) : IsNum(entries[i].v)
    THEN {StableSortDesc(entries)}
    ELSE Orderings(entries)

\* formatEm(value) and formatNumber(value) call value.toFixed
ToFixedThrows(value) == value.t \notin {"num", "nan"}

\* renderSummary, given the sorted entries: the cards, or <<>> with threw
\* when formatEm throws (the container is emptied first)
renderSummary(data, sortedDept, sortedCat) ==
    LET total == Total(data)
        topDept == sortedDept[1]
        topCat == sortedCat[1]
    IN  IF ToFixedThrows(topDept.v) \/ ToFixedThrows(topCat.v)
        THEN [cards |-> <<>>, threw |-> TRUE]
        ELSE [cards |-> <<[total |-> total, topDept |-> topDept, topCat |-> topCat]>>,
              threw |-> FALSE]

\* Math.max(...values)
RECURSIVE MathMax(_)
MathMax(values) ==
    IF \E i \in 1..Len(values) : ~IsNum(values[i]) THEN NaN
    ELSE IF Len(values) = 1 THEN values[1]
    ELSE LET m == MathMax(Tail(values))
         IN  IF values[1].v > m.v THEN values[1] ELSE m

\* (value / maxValue) * 100, rounded down
HeightPercent(value, maxValue) ==
    IF ~IsNum(value) \/ ~IsNum(maxValue) \/ maxValue.v = 0 THEN NaN
    ELSE Num((value.v * 100) \div maxValue.v)

RECURSIVE BarsUntilThrow(_, _)
\* entries.forEach: a bar per entry, up to the first entry formatNumber
\* throws on
BarsUntilThrow(sorted, maxValue) ==
    IF sorted = <<>> \/ ToFixedThrows(sorted[1].v) THEN <<>>
    ELSE <<[k |-> sorted[1].k, v |-> sorted[1].v,
            height |-> HeightPercent(sorted[1].v, maxValue)]>>
         \o BarsUntilThrow(Tail(sorted), maxValue)

\* renderBarChart(container, dataMap), given the sorted entries
renderBarChart(sorted) ==
    LET maxValue == MathMax([i \in 1..Len(sorted) |-> sorted[i].v])
    IN  [bars |-> BarsUntilThrow(sorted, maxValue),
         threw |-> \E i \in 1..Len(sorted) : ToFixedThrows(sorted[i].v)]

MonthRank(m) == IF m = "2024-01" THEN 1 ELSE IF m = "2024-02" THEN 2 ELSE 0

RECURSIVE SortLabels(_)
\* Object.keys(monthlyTotals).sort()
SortLabels(keys) ==
    IF keys = <<>> THEN <<>>
    ELSE LET m == CHOOSE i \in 1..Len(keys) :
                    \A j \in 1..Len(keys) : MonthRank(keys[i]) <= MonthRank(keys[j])
         IN  <<keys[m]>> \o SortLabels(SubSeq(keys, 1, m - 1) \o SubSeq(keys, m + 1, Len(keys)))

\* renderTrendChart: the labels and values handed to drawLineChart
renderTrendChart(data) ==
    LET months == [i \in 1..Len(data) |->
                      [month |-> data[i].date.month, emission |-> data[i].emission]]
        monthlyTotals == GroupTotals(months, "month", <<>>)
        labels == SortLabels([i \in 1..Len(monthlyTotals) |-> monthlyTotals[i].k])
    IN  [labels |-> labels,
         values |-> [i \in 1..Len(labels) |-> Get(monthlyTotals, labels[i])]]

\* generateCue(cat): the advisory text, named by its case
generateCue(cat) ==
    IF cat \in {"electricity", "transport_car", "transport_bus", "transport_train",
                "transport_flight", "waste"}
    THEN cat ELSE "default"

NaNShare == [t |-> "nan", n |-> 0, d |-> 0]

\* (val / total) * 100, kept as the fraction n / d
Share(val, total) ==
    IF ~IsNum(val) \/ ~IsNum(total) THEN NaNShare
    ELSE IF total.v = 0
         THEN IF val.v = 0 THEN NaNShare ELSE [t |-> "infinity", n |-> 0, d |-> 0]
         ELSE [t |-> "num", n |-> val.v * 100, d |-> total.v]

\* renderAnalysis, given the sorted entries of catTotals
renderAnalysis(data, sortedCat) ==
    LET total == SeqSum(ObjectValues(CatTotals(data)))
    IN  [i \in 1..Len(sortedCat) |->
            [cat |-> sortedCat[i].k,
             share |-> Share(sortedCat[i].v, total),
             cue |-> generateCue(sortedCat[i].k)]]

\* processData on a non-empty data array, with the orders the two sorts of
\* the totals came out in
Render(data, d, sortedDept, sortedCat) ==
    LET shown == [d EXCEPT !.hidden = FALSE]
        summary == renderSummary(data, sortedDept, sortedCat)
        deptChart == renderBarChart(sortedDept)
        catChart == renderBarChart(sortedCat)
    IN  IF summary.threw
        THEN [dash |-> [shown EXCEPT !.summary = <<>>], threw |-> TRUE]
        ELSE IF deptChart.threw
        THEN [dash |-> [shown EXCEPT !.summary = summary.cards,
                                     !.deptBars = deptChart.bars],
              threw |-> TRUE]
        ELSE IF catChart.threw
        THEN [dash |-> [shown EXCEPT !.summary = summary.cards,
                                     !.deptBars = deptChart.bars,
                                     !.catBars = catChart.bars],
              threw |-> TRUE]
        ELSE [dash |-> [hidden |-> FALSE,
                        summary |-> summary.cards,
                        deptBars |-> deptChart.bars,
                        catBars |-> catChart.bars,
                        trend |-> renderTrendChart(data),
                        analysis |-> renderAnalysis(data, sortedCat)],
              threw |-> FALSE]

\* the data array once processData has set the emissions and sorted it
Processed(records) == SortByDate([i \in 1..Len(records) |-> WithEmission(records[i])])

\* processData(): the possible outcomes for the data array parseCSV returned
\* and the page d
processData(records, d) ==
    IF records = <<>>
    THEN {[data |-> records, out |-> [dash |-> d, threw |-> FALSE]]}
    ELSE LET data == Processed(records)
         IN  { [data |-> data, out |-> Render(data, d, sd, sc)] :
               sd \in SortDescOutcomes(ObjectEntries(DeptTotals(data))),
               sc \in SortDescOutcomes(ObjectEntries(CatTotals(data))) }

\* activityData = parseCSV(text); processData();
LoadText(text) ==
    \E out \in processData(parseCSV(text), dash) :
        /\ activityData' = out.data
        /\ dash' = out.out.dash
        /\ dashThrew' = out.out.threw
        /\ loaded' = <<text>>
        /\ parsed' = parseCSV(text)

\* One load is in flight when the page is first observed: a file chosen in
\* the file input, or the sample data requested.
PipeInit ==
    /\ \E h \in Headers :
          \E n \in 0..MaxLinesUnder(h) :
          \E body \in [1..n -> LineChoices(h)] :
              \E kind \in IF n <= SampleLines THEN {"file", "sample"} ELSE {"file"} :
                  pending = <<[kind |-> kind, text |-> <<h>> \o body, id |-> 1]>>
    /\ activityData = <<>>
    /\ dash = EmptyDash
    /\ dashThrew = FALSE
    /\ loaded = <<>>
    /\ parsed = <<>>
    /\ started = 1
    /\ completed = <<>>
    /\ blob = Absent
    /\ results = NoResult
    /\ view = NoHistoryView
    /\ alert = "none"
    /\ threw = FALSE
    /\ now = 0
    /\ lastOp = "pageload"
    /\ prev = Absent
    /\ lastCalc = <<>>

\* the loads in flight without the i-th
Settle(i) == SubSeq(pending, 1, i - 1) \o SubSeq(pending, i + 1, Len(pending))

\* reader.onload of one of the readers that are reading
readerOnload ==
    \E i \in DOMAIN pending :
        /\ pending[i].kind = "file"
        /\ LoadText(pending[i].text)
        /\ pending' = Settle(i)
        /\ completed' = Append(completed, [id |-> pending[i].id, text |-> pending[i].text])
        /\ UNCHANGED started
        /\ UNCHANGED histVars

\* the continuation of a load-sample click handler after both awaits
\* (fileInput.value = '' clears the file name shown, which is no state here)
sampleLoaded ==
    \E i \in DOMAIN pending :
        /\ pending[i].kind = "sample"
        /\ LoadText(pending[i].text)
        /\ pending' = Settle(i)
        /\ completed' = Append(completed, [id |-> pending[i].id, text |-> pending[i].text])
        /\ UNCHANGED started
        /\ UNCHANGED histVars

\* fetch or response.text() rejects: the error is logged, nothing else
sampleFailed ==
    \E i \in DOMAIN pending :
        /\ pending[i].kind = "sample"
        /\ pending' = Settle(i)
        /\ dashThrew' = FALSE
        /\ UNCHANGED <<activityData, dash, loaded, parsed, started, completed>>
        /\ UNCHANGED histVars

PipeNext ==
    \/ readerOnload
    \/ sampleLoaded
    \/ sampleFailed

PipeSpec == PipeInit /\ [][PipeNext]_vars

(***************************************************************************)
(* Claims about the dashboard pipeline (checked under PipeSpec).           *)
(***************************************************************************)
\* a load has completed
Done == loaded # <<>>

\* the position of column name in the header line of text t, 0 if none
Column(t, name) ==
    IF \E i \in 1..Len(t[1]) : ToLowerCase(Trim(t[1][i])) = name
    THEN CHOOSE i \in 1..Len(t[1]) : ToLowerCase(Trim(t[1][i])) = name
    ELSE 0

\* the trimmed piece of line i of text t under column name, "" if missing
Piece(t, i, name) ==
    IF Column(t, name) \in 1..Len(t[i]) THEN Trim(t[i][Column(t, name)]) ELSE ""

\* line i of text t is blank or a comment
IsSkipLine(t, i) == t[i] = EmptyLine \/ StartsWithHash(t[i][1])

\* line i of text t is a data line whose date does not parse
IsBadDateLine(t, i) == ~IsSkipLine(t, i) /\ ~NewDate(Piece(t, i, "date")).valid

\* text t without its line i
WithoutLine(t, i) == SubSeq(t, 1, i - 1) \o SubSeq(t, i + 1, Len(t))

RECURSIVE KeptLines(_, _)
\* the lines of t from i on that are neither skipped nor of a bad date
KeptLines(t, i) ==
    IF i > Len(t) THEN <<>>
    ELSE IF IsSkipLine(t, i) \/ IsBadDateLine(t, i) THEN KeptLines(t, i + 1)
    ELSE <<i>> \o KeptLines(t, i + 1)

\* a === b on numbers
NumEq(a, b) == IsNum(a) /\ IsNum(b) /\ a.v = b.v

\* C5 (as claimed): for every parsed dataset the per-category totals, the
\* per-department totals and the total emission add up to the same number.
C5_SumsAgree ==
    Done /\ activityData # <<>> =>
        /\ NumEq(SeqSum(ObjectValues(CatTotals(activityData))), Total(activityData))
        /\ NumEq(SeqSum(ObjectValues(DeptTotals(activityData))), Total(activityData))

\* C6: a data line whose date does not parse yields no record: every record
\* has a valid date, and the records, hence every aggregate and the total,
\* are those of the same text without that line, so every other line is
\* still processed.
C6_BadDateDropped ==
    Done =>
        /\ \A j \in 1..Len(parsed) : parsed[j].date.valid
        /\ \A i \in 2..Len(loaded[1]) :
              IsBadDateLine(loaded[1], i) =>
                  /\ parsed = parseCSV(WithoutLine(loaded[1], i))
                  /\ activityData = Processed(parseCSV(WithoutLine(loaded[1], i)))
                  /\ Len(parsed) = Len(KeptLines(loaded[1], 2))

C6_Witness ==
    /\ Done
    /\ \E i \in 2..Len(loaded[1]) : IsBadDateLine(loaded[1], i)
    /\ Len(activityData) >= 2
    /\ dash.summary # <<>>

\* C7 (as claimed): a record whose category is not a key of the factor table
\* has emission 0 and is kept: its department and its category are keys of
\* the by-department and by-category totals.
C7_UnknownCategoryZero ==
    Done =>
        \A j \in 1..Len(activityData) :
            activityData[j].category \notin DOMAIN DASHBOARD_EMISSION_FACTORS =>
                /\ activityData[j].emission = Num(0)
                /\ activityData[j].department \in OwnKeys(DeptTotals(activityData))
                /\ activityData[j].category \in OwnKeys(CatTotals(activityData))

\* C8: blank lines and lines beginning with '#' yield no record, and every
\* other line with a valid date yields exactly one record, in line order.
C8_OneRecordPerLine ==
    Done =>
        LET t == loaded[1]
            kept == KeptLines(t, 2)
        IN  /\ Len(parsed) = Len(kept)
            /\ \A j \in 1..Len(kept) :
                  /\ parsed[j].date = NewDate(Piece(t, kept[j], "date"))
                  /\ parsed[j].department = Piece(t, kept[j], "department")
                  /\ parsed[j].category = ToLowerCase(Piece(t, kept[j], "category"))
                  /\ parsed[j].amount = ParseFloat(Piece(t, kept[j], "amount"))

C8_Witness ==
    /\ Done
    /\ \E i \in 2..Len(loaded[1]) : loaded[1][i] = CommentLine
    /\ Len(parsed) = 2
    /\ parsed[1].date.time > parsed[2].date.time
    /\ parsed[1].department # parsed[2].department

\* ascending alphabetical order of the keys of the model
AlphaRank(k) ==
    CASE k = "" -> 0
      [] k = "7" -> 1
      [] k = "constructor" -> 2
      [] k = "electricity" -> 3
      [] k = "foo" -> 4
      [] k = "HR" -> 5
      [] k = "Ops" -> 6
      [] k = "transport_car" -> 7
      [] k = "waste" -> 8
      [] OTHER -> 9

AllNum(totals) == \A i \in 1..Len(totals) : IsNum(totals[i].v)

\* the key the claim names the top one: of the keys with the largest total,
\* the first in alphabetical order
AlphaTop(totals) ==
    LET best == { i \in 1..Len(totals) :
                    \A j \in 1..Len(totals) : totals[j].v.v <= totals[i].v.v }
    IN  totals[CHOOSE i \in best :
                  \A j \in best : AlphaRank(totals[i].k) <= AlphaRank(totals[j].k)].k

\* C9 (as claimed), on the datasets whose totals are all numbers: the top
\* department and the top category of the summary are the keys with the
\* largest total and, among several of those, the alphabetically first.
C9_TopAlphabetical ==
    Done /\ dash.summary # <<>>
         /\ AllNum(DeptTotals(activityData)) /\ AllNum(CatTotals(activityData)) =>
        /\ dash.summary[1].topDept.k = AlphaTop(DeptTotals(activityData))
        /\ dash.summary[1].topCat.k = AlphaTop(CatTotals(activityData))

\* C10 (as claimed), on the datasets whose category totals are all numbers:
\* with total 0 every share of the analysis is zero or marked undefined, not
\* the result of dividing by zero; with a total above 0 the shares add up to
\* 100 percent.
C10_SharesGuarded ==
    Done /\ dash.analysis # <<>> /\ AllNum(CatTotals(activityData)) =>
        LET total == SeqSum(ObjectValues(CatTotals(activityData)))
            shares == [i \in 1..Len(dash.analysis) |-> dash.analysis[i].share]
        IN  /\ total.v = 0 =>
                  \A i \in 1..Len(shares) :
                      \/ shares[i].t = "undefined"
                      \/ shares[i].t = "num" /\ shares[i].n = 0
            /\ total.v > 0 =>
                  /\ \A i \in 1..Len(shares) : shares[i].t = "num" /\ shares[i].d = total.v
                  /\ SeqSum([i \in 1..Len(shares) |-> Num(shares[i].n)]) = Num(100 * total.v)

(***************************************************************************)
(* Several loads.  The user picks files and clicks the load-sample button  *)
(* while earlier reads and fetches are still in flight; a read or fetch    *)
(* completes whenever its data is there, so completions come in any order. *)
(***************************************************************************)
MaxLoads == 3        \* loads are started while fewer than this were started

\* the contents tried for a picked file and for sample_data.csv: two
\* datasets, a file with no data line, a file whose rendering throws
RaceTexts ==
    { <<DocumentedHeader,
        LineOf(Row("2024-02-10", "Ops", "electricity", "kWh", "50"), DocumentedHeader)>>,
      <<DocumentedHeader,
        LineOf(Row("2024-01-20", "7", "waste", "kg", "41"), DocumentedHeader),
        LineOf(Row("2024-01-05", "Ops", "waste", "kg", "10"), DocumentedHeader)>>,
      <<DocumentedHeader>>,
      <<DocumentedHeader,
        LineOf(Row("2024-02-10", "constructor", "waste", "kg", "10"), DocumentedHeader)>> }

\* e.target.files[0] when the file dialog was closed with no file picked
NoFile == <<>>

\* the change listener of the file input: a new reader starts reading
fileChange ==
    /\ started < MaxLoads
    /\ \E file \in RaceTexts \cup {NoFile} :
          IF file = NoFile
          THEN UNCHANGED <<pending, started>>
          ELSE /\ pending' = Append(pending, [kind |-> "file", text |-> file,
                                              id |-> started + 1])
               /\ started' = started + 1
    /\ UNCHANGED <<activityData, dash, dashThrew, loaded, parsed, completed>>
    /\ UNCHANGED histVars

\* the click listener of the load-sample button up to its first await; text
\* is what response.text() will resolve to
sampleClick ==
    /\ started < MaxLoads
    /\ \E text \in RaceTexts :
          pending' = Append(pending, [kind |-> "sample", text |-> text,
                                     id |-> started + 1])
    /\ started' = started + 1
    /\ UNCHANGED <<activityData, dash, dashThrew, loaded, parsed, completed>>
    /\ UNCHANGED histVars

\* the dashboard page as served, the calculator page not open
RaceInit ==
    /\ DashIdle
    /\ blob = Absent
    /\ results = NoResult
    /\ view = NoHistoryView
    /\ alert = "none"
    /\ threw = FALSE
    /\ now = 0
    /\ lastOp = "pageload"
    /\ prev = Absent
    /\ lastCalc = <<>>

RaceNext ==
    \/ fileChange
    \/ sampleClick
    \/ readerOnload
    \/ sampleLoaded
    \/ sampleFailed

RaceSpec == RaceInit /\ [][RaceNext]_vars

(***************************************************************************)
(* Claims about several loads (checked under RaceSpec).                    *)
(***************************************************************************)
\* the load that reached processData last
LastCompleted == completed[Len(completed)]

\* the pages a load of text shows when it is the only load of the page
OwnDash(text) == {o.out.dash : o \in processData(parseCSV(text), EmptyDash)}

\* C11 (as claimed): loads are not guarded against being superseded: once
\* one or more loads have completed, the dataset in memory and the dashboard
\* on display are those of the load that completed last, whichever of them
\* the user started first.
C11_LastCompletedWins ==
    completed # <<>> =>
        /\ activityData = Processed(parseCSV(LastCompleted.text))
        /\ dash \in OwnDash(LastCompleted.text)

\* rendering the records never ends in an exception
RendersCleanly(records) ==
    \A o \in processData(records, EmptyDash) : ~o.out.threw

\* no aggregate is on display on page d
ShowsNothing(d) ==
    /\ d.summary = <<>>
    /\ d.deptBars = <<>>
    /\ d.catBars = <<>>
    /\ d.trend = EmptyDash.trend
    /\ d.analysis = <<>>

\* page d displays the aggregates of the non-empty dataset data
ShowsAggregatesOf(d, data) ==
    \E sd \in SortDescOutcomes(ObjectEntries(DeptTotals(data))),
       sc \in SortDescOutcomes(ObjectEntries(CatTotals(data))) :
        /\ d.summary = renderSummary(data, sd, sc).cards
        /\ d.deptBars = renderBarChart(sd).bars
        /\ d.catBars = renderBarChart(sc).bars
        /\ d.trend = renderTrendChart(data)
        /\ d.analysis = renderAnalysis(data, sc)

\* C12 (as claimed): after every completed load the dataset in memory holds
\* exactly the records parsed from that load, and the summary, the two bar
\* charts, the trend chart and the analysis on display are the aggregates of
\* that dataset; after a load that parsed to no record, no aggregate of an
\* earlier dataset is on display.  (Stated for loads whose rendering does
\* not throw.)
C12_DisplayIsOfDataset ==
    (completed # <<>> /\ RendersCleanly(parsed)) =>
        /\ activityData = Processed(parsed)
        /\ IF activityData = <<>>
           THEN ShowsNothing(dash)
           ELSE ShowsAggregatesOf(dash, activityData)
====
